---------------------------- MODULE Spec2Model ----------------------------
(***************************************************************************)
(* SimpleQABench (src/benchflow_interface.py): the adapter's get_args and  *)
(* get_result, run by a harness against a results directory and a logs     *)
(* directory that the benchmark container writes.                          *)
(*                                                                         *)
(* Representation.  A JSON document is a tagged value: a dict              *)
(* [type |-> "dict", fields |-> f], a list [type |-> "list", elems |-> s]  *)
(* or a number [type |-> "int", n |-> k].  The leaves the adapter only     *)
(* copies (metric values, per-example records) are plain integers; a       *)
(* fractional metric is written in thousandths (0.8 is 800, 0.0 is 0).     *)
(* Python strings are TLA+ strings.                                        *)
(***************************************************************************)
EXTENDS Integers, Sequences, FiniteSets, TLC

VARIABLES results, logf, last

vars == <<results, logf, last>>

(***************************************************************************)
(* Bounds and program constants                                            *)
(***************************************************************************)
\* longest per-example results list a result file holds in the model
MaxResults == 12

\* the slice bound of results["results"][:10]
DetailCap == 10

\* the paths the harness provisions as self.results_dir / self.log_files_dir
results_dir == "/host/results"
log_files_dir == "/host/logs"

\* entry names the container may leave in the results directory
Names == {"a_result.json", "b_result.json", "a_result.json.bak"}

TaskIds == {"", "default"}

(***************************************************************************)
(* JSON values and file bodies                                             *)
(***************************************************************************)
JDict(f) == [type |-> "dict", fields |-> f]
JList(s) == [type |-> "list", elems |-> s]
JInt(k) == [type |-> "int", n |-> k]

\* a file whose open() fails, a file of text that is not JSON, a JSON file
Denied == [kind |-> "denied"]
Text(t) == [kind |-> "text", text |-> t]
Json(v) == [kind |-> "json", value |-> v]

MetricKeys ==
    <<"accuracy", "correct", "incorrect", "not_attempted", "total",
      "correct_given_attempted", "f_score">>

MetricKeySet == {MetricKeys[i] : i \in 1..Len(MetricKeys)}

MetricsA ==
    [accuracy |-> 800, correct |-> 8, incorrect |-> 1, not_attempted |-> 2,
     total |-> 11, correct_given_attempted |-> 888, f_score |-> 840]

\* a metrics object with an eighth key the adapter does not know
MetricsB ==
    [accuracy |-> 500, correct |-> 3, incorrect |-> 2, not_attempted |-> 1,
     total |-> 6, correct_given_attempted |-> 600, f_score |-> 545,
     extra |-> 7]

Without(f, k) == [x \in (DOMAIN f) \ {k} |-> f[x]]

\* n distinct per-example records, not in increasing order
Examples(n) == [i \in 1..n |-> (i * 7) % 17]

Doc(m, r) == Json(JDict([metrics |-> m, results |-> r]))

Bodies ==
    {Denied, Text(""), Text("{\"metrics\": "),
     Json(JList(<<>>)),
     Json(JDict([results |-> JList(Examples(3))])),
     Doc(JInt(5), JList(Examples(3))),
     Json(JDict([metrics |-> JDict(MetricsA)])),
     Doc(JDict(MetricsA), JInt(5)),
     Doc(JDict(MetricsB), JList(Examples(3)))}
    \cup {Doc(JDict(Without(MetricsA, k)), JList(Examples(3))) : k \in MetricKeySet}
    \cup {Doc(JDict(MetricsA), JList(Examples(n))) : n \in 0..MaxResults}

\* what a second result file holds: a smaller choice of the same bodies
SecondBodies ==
    {Denied, Text(""), Doc(JDict(MetricsB), JList(Examples(3))),
     Doc(JDict(MetricsA), JList(Examples(MaxResults)))}

\* what an entry that is not a result file holds
OtherBodies == {Doc(JDict(MetricsB), JList(Examples(3)))}

BodiesOf(name) ==
    IF name = "a_result.json" THEN Bodies
    ELSE IF name = "b_result.json" THEN SecondBodies
    ELSE OtherBodies

\* simpleqa.log: absent, present but unreadable, or a readable text file
NoLog == [exists |-> FALSE, readable |-> FALSE, text |-> ""]
LogStates ==
    {NoLog,
     [exists |-> TRUE, readable |-> FALSE, text |-> ""],
     [exists |-> TRUE, readable |-> TRUE, text |-> "hello"]}

NoFiles == [n \in {} |-> Denied]

(***************************************************************************)
(* Python primitives used by get_result                                    *)
(***************************************************************************)
Ok(v) == [raised |-> FALSE, value |-> v]
Raise(t, m) == [raised |-> TRUE, type |-> t, msg |-> m]

\* a name test that finds the suffix anywhere in the name
contains(s, suffix) ==
    \E i \in 1..Len(s) :
        /\ i + Len(suffix) - 1 <= Len(s)
        /\ SubSeq(s, i, i + Len(suffix) - 1) = suffix

\* str.endswith
endswith(s, suffix) ==
    /\ Len(s) >= Len(suffix)
    /\ SubSeq(s, Len(s) - Len(suffix) + 1, Len(s)) = suffix

\* os.path.join of a directory and an entry name
path_join(dir, name) == dir \o "/" \o name

\* what open(path, 'w') would leave in the file: nothing
after_open_w(body) == Text("")

\* what open(path, 'r') leaves in the file: reading does not change it
after_open_r(body) == body

\* open(path, 'r') of a results-directory entry
open_r(body, path) ==
    IF body.kind = "denied"
    THEN Raise("PermissionError", "[Errno 13] Permission denied: '" \o path \o "'")
    ELSE Ok(body)

\* the message of json.JSONDecodeError for the non-JSON texts of the model
JSONDecodeErrorMsg(text) ==
    IF text = ""
    THEN "Expecting value: line 1 column 1 (char 0)"
    ELSE "Expecting value: line 1 column 13 (char 12)"

\* json.load of an opened file
json_load(body) ==
    IF body.kind = "text"
    THEN Raise("JSONDecodeError", JSONDecodeErrorMsg(body.text))
    ELSE Ok(body.value)

\* obj[key] for a string key
getitem(obj, key) ==
    IF obj.type = "dict"
    THEN IF key \in DOMAIN obj.fields
         THEN Ok(obj.fields[key])
         ELSE Raise("KeyError", "'" \o key \o "'")
    ELSE IF obj.type = "list"
         THEN Raise("TypeError", "list indices must be integers or slices, not str")
         ELSE Raise("TypeError", "'int' object is not subscriptable")

\* obj[-10:], the last entries instead of the first
slice_last(obj) ==
    IF obj.type = "list"
    THEN Ok(SubSeq(obj.elems,
                   IF Len(obj.elems) < DetailCap THEN 1
                   ELSE Len(obj.elems) - DetailCap + 1,
                   Len(obj.elems)))
    ELSE Raise("TypeError", "'int' object is not subscriptable")

\* obj[:10]
slice_first(obj) ==
    IF obj.type = "list"
    THEN Ok(SubSeq(obj.elems, 1,
                   IF Len(obj.elems) < DetailCap THEN Len(obj.elems) ELSE DetailCap))
    ELSE IF obj.type = "dict"
         THEN Raise("TypeError", "unhashable type: 'slice'")
         ELSE Raise("TypeError", "'int' object is not subscriptable")

\* the log opened without the os.path.exists test
read_log_unguarded(lf) ==
    IF lf.exists /\ lf.readable
    THEN Ok(lf.text)
    ELSE Raise("OSError", "cannot open '" \o log_files_dir \o "/simpleqa.log'")

\* lines 81-85: the log text, "" when simpleqa.log does not exist
read_log(lf) ==
    IF ~lf.exists
    THEN Ok("")
    ELSE IF lf.readable
         THEN Ok(lf.text)
         ELSE Raise("PermissionError",
                    "[Errno 13] Permission denied: '"
                        \o path_join(log_files_dir, "simpleqa.log") \o "'")

\* the file-system calls lines 81-85 make
log_accesses(lf) ==
    <<[op |-> "exists", path |-> path_join(log_files_dir, "simpleqa.log")]>>
    \o (IF lf.exists
        THEN <<[op |-> "open", path |-> path_join(log_files_dir, "simpleqa.log")]>>
        ELSE <<>>)

(***************************************************************************)
(* The records get_result builds                                           *)
(***************************************************************************)
BenchmarkResult(task_id, is_resolved, log, metrics, other) ==
    [task_id |-> task_id, is_resolved |-> is_resolved, log |-> log,
     metrics |-> metrics, other |-> other]

\* lines 65-71
no_results(task_id) ==
    BenchmarkResult(task_id, FALSE, [message |-> ""], [accuracy |-> 0],
                    [error |-> "No results found"])

\* a handler that reports the log in the success shape
except_result_content(task_id, e) ==
    [task_id |-> task_id, is_resolved |-> FALSE, log |-> [content |-> ""],
     metrics |-> [accuracy |-> 0],
     other |-> [error |-> "Error parsing results: " \o e.msg]]

\* a handler that names the exception's type and drops its message
except_result_type(task_id, e) ==
    [task_id |-> task_id, is_resolved |-> FALSE, log |-> [message |-> ""],
     metrics |-> [accuracy |-> 0],
     other |-> [error |-> "Error parsing results: " \o e.type]]

\* lines 109-115
except_result(task_id, e) ==
    BenchmarkResult(task_id, FALSE, [message |-> ""], [accuracy |-> 0],
                    [error |-> "Error parsing results: " \o e.msg])

\* lines 93-101: the seven fields, read in this order
first_missing(metrics) ==
    LET bad == {i \in 1..Len(MetricKeys) : getitem(metrics, MetricKeys[i]).raised}
    IN  IF bad = {} THEN 0 ELSE CHOOSE i \in bad : \A j \in bad : i <= j

\* two counts copied into each other's field
copy_metrics_swapped(m) ==
    [accuracy |-> m["accuracy"], correct |-> m["correct"],
     incorrect |-> m["not_attempted"], not_attempted |-> m["incorrect"],
     total |-> m["total"],
     correct_given_attempted |-> m["correct_given_attempted"],
     f_score |-> m["f_score"]]

copy_metrics(m) ==
    [accuracy |-> m["accuracy"], correct |-> m["correct"],
     incorrect |-> m["incorrect"], not_attempted |-> m["not_attempted"],
     total |-> m["total"],
     correct_given_attempted |-> m["correct_given_attempted"],
     f_score |-> m["f_score"]]

\* lines 102-105
success_other(m, detailed) ==
    [success |-> "Evaluated " \o ToString(m["total"]) \o " examples",
     detailed_results |-> detailed]

(***************************************************************************)
(* get_args and get_result                                                 *)
(***************************************************************************)
\* the API key also given an (empty) default
get_args_key_default(task_id) ==
    [required_args |-> <<"OPENAI_API_KEY">>,
     optional_args |->
        [OPENAI_API_KEY |-> "",
         MODEL_NAME |-> "gpt-4o-mini", TEMPERATURE |-> "0.5",
         MAX_TOKENS |-> "2048", LIMIT |-> "0", BATCH_SIZE |-> "10",
         GRADER_MODEL |-> "gpt-4o", GRADER_TEMPERATURE |-> "0.5"]]

\* lines 14-33
get_args(task_id) ==
    [required_args |-> <<"OPENAI_API_KEY">>,
     optional_args |->
        [MODEL_NAME |-> "gpt-4o-mini", TEMPERATURE |-> "0.5",
         MAX_TOKENS |-> "2048", LIMIT |-> "0", BATCH_SIZE |-> "10",
         GRADER_MODEL |-> "gpt-4o", GRADER_TEMPERATURE |-> "0.5"]]

\* os.listdir(self.results_dir); listing is the order the platform returns
listdir(rd, listing) ==
    IF rd.state = "missing"
    THEN Raise("FileNotFoundError",
               "[Errno 2] No such file or directory: '" \o results_dir \o "'")
    ELSE IF rd.state = "denied"
         THEN Raise("PermissionError",
                    "[Errno 13] Permission denied: '" \o results_dir \o "'")
         ELSE Ok(listing)

\* line 62: the entries whose name ends with _result.json, in listing order
\* line 62: f.endswith("_result.json")
is_result_file(f, suffix) == endswith(f, suffix)

result_files_of(listing) ==
    SelectSeq(listing, LAMBDA f : is_result_file(f, "_result.json"))

\* the last result file found instead of the first
select_last(result_files) == result_files[Len(result_files)]

\* line 74: the first result file found
select_result_file(result_files) == result_files[1]

\* lines 77-106, the body of the try: res is the record returned or the
\* exception raised, accesses the file-system calls made on the way
try_body(task_id, body, path, lf) ==
    LET opening == <<[op |-> "open", path |-> path]>>
        f == open_r(body, path)
        loaded == json_load(body)
        log_content == read_log(lf)
        logged == opening \o log_accesses(lf)
    IN  IF f.raised THEN [res |-> f, accesses |-> opening]
        ELSE IF loaded.raised THEN [res |-> loaded, accesses |-> opening]
        ELSE IF log_content.raised THEN [res |-> log_content, accesses |-> logged]
        ELSE
          LET metrics == getitem(loaded.value, "metrics")
          IN  IF metrics.raised THEN [res |-> metrics, accesses |-> logged]
              ELSE IF first_missing(metrics.value) # 0
              THEN [res |-> getitem(metrics.value,
                                    MetricKeys[first_missing(metrics.value)]),
                    accesses |-> logged]
              ELSE
                LET raw == getitem(loaded.value, "results")
                IN  IF raw.raised THEN [res |-> raw, accesses |-> logged]
                    ELSE IF slice_first(raw.value).raised
                    THEN [res |-> slice_first(raw.value), accesses |-> logged]
                    ELSE [res |-> Ok(BenchmarkResult(
                                      task_id, TRUE,
                                      [content |-> log_content.value],
                                      copy_metrics(metrics.value.fields),
                                      success_other(metrics.value.fields,
                                                    slice_first(raw.value).value))),
                          accesses |-> logged]

NoExc == [raised |-> FALSE]
Return(v) == [kind |-> "return", value |-> v]
Propagate(e) == [kind |-> "raise", type |-> e.type, msg |-> e.msg]

\* lines 53-115.  out: what the caller gets; caught: the exception the
\* except clause caught, if any; opened: the result file read, "" if none
get_result(task_id, rd, listing, lf) ==
    LET listed == listdir(rd, listing)
        ls == <<[op |-> "listdir", path |-> results_dir]>>
    IN  IF listed.raised
        THEN [out |-> Propagate(listed), caught |-> NoExc, accesses |-> ls,
              opened |-> ""]
        ELSE IF result_files_of(listed.value) = <<>>
        THEN [out |-> Return(no_results(task_id)), caught |-> NoExc,
              accesses |-> ls, opened |-> ""]
        ELSE
          LET name == select_result_file(result_files_of(listed.value))
              t == try_body(task_id, rd.files[name],
                            path_join(results_dir, name), lf)
          IN  IF t.res.raised
              THEN [out |-> Return(except_result(task_id, t.res)),
                    caught |-> t.res, accesses |-> ls \o t.accesses,
                    opened |-> name]
              ELSE [out |-> Return(t.res.value), caught |-> NoExc,
                    accesses |-> ls \o t.accesses, opened |-> name]

(***************************************************************************)
(* The state machine.  results and logf are the two directories; last is   *)
(* the adapter call the harness made most recently since the container     *)
(* last wrote to them (op "none" when it has made none since).             *)
(***************************************************************************)
NoCall == [op |-> "none"]

Listings(S) ==
    {s \in [1..Cardinality(S) -> S] : \A i, j \in DOMAIN s : s[i] = s[j] => i = j}

Init ==
    /\ results = [state |-> "ok", files |-> NoFiles]
    /\ logf = NoLog
    /\ last = NoCall

\* the container (or the harness) creates, empties, removes or locks the
\* results directory
SetResultsDir(s) ==
    /\ results.state # s \/ DOMAIN results.files # {}
    /\ results' = [state |-> s, files |-> NoFiles]
    /\ last' = NoCall
    /\ UNCHANGED logf

\* the container writes an entry of the results directory
WriteEntry(name, body) ==
    /\ results.state = "ok"
    /\ results' = [results EXCEPT !.files =
                      [n \in DOMAIN results.files \cup {name} |->
                          IF n = name THEN body ELSE results.files[n]]]
    /\ last' = NoCall
    /\ UNCHANGED logf

RemoveEntry(name) ==
    /\ results.state = "ok"
    /\ name \in DOMAIN results.files
    /\ results' = [results EXCEPT !.files =
                      [n \in DOMAIN results.files \ {name} |-> results.files[n]]]
    /\ last' = NoCall
    /\ UNCHANGED logf

\* the container writes, removes or locks simpleqa.log
WriteLog(l) ==
    /\ l # logf
    /\ logf' = l
    /\ last' = NoCall
    /\ UNCHANGED results

GetArgs(task_id) ==
    /\ last' = [op |-> "get_args", task_id |-> task_id, out |-> get_args(task_id)]
    /\ UNCHANGED <<results, logf>>

GetResult(task_id, listing) ==
    LET r == get_result(task_id, results, listing, logf)
        readBody ==
            /\ r.opened # ""
            /\ ~open_r(results.files[r.opened], path_join(results_dir, r.opened)).raised
    IN  /\ last' = [op |-> "get_result", task_id |-> task_id,
                    listing |-> listing, out |-> r.out, caught |-> r.caught,
                    accesses |-> r.accesses, opened |-> r.opened,
                    repeat |-> /\ last.op = "get_result"
                               /\ last.task_id = task_id
                               /\ last.listing = listing]
        /\ results' = IF readBody
                      THEN [results EXCEPT !.files[r.opened] = after_open_r(@)]
                      ELSE results
        /\ UNCHANGED logf

Next ==
    \/ \E s \in {"ok", "missing", "denied"} : SetResultsDir(s)
    \/ \E name \in Names : \E body \in BodiesOf(name) : WriteEntry(name, body)
    \/ \E name \in Names : RemoveEntry(name)
    \/ \E l \in LogStates : WriteLog(l)
    \/ \E task_id \in TaskIds : GetArgs(task_id)
    \/ \E task_id \in TaskIds : \E listing \in Listings(DOMAIN results.files) :
          GetResult(task_id, listing)

Spec == Init /\ [][Next]_vars

(***************************************************************************)
(* Vocabulary of the properties.  Between a call and the state that        *)
(* records it the directories are as the call found them: every container  *)
(* step clears last.                                                       *)
(***************************************************************************)
IsCall == last.op = "get_result"
Returned == IsCall /\ last.out.kind = "return"
Rec == last.out.value

Suffix == "_result.json"
LogPath == log_files_dir \o "/simpleqa.log"

\* the matching entries of the results directory
Matching == {n \in DOMAIN results.files : endswith(n, Suffix)}

\* the call listed the directory and found a matching entry
HasPick == IsCall /\ results.state = "ok" /\ Matching # {}

\* the first matching entry of the listing the call got, and what it holds
PickedIdx ==
    CHOOSE i \in DOMAIN last.listing :
        /\ endswith(last.listing[i], Suffix)
        /\ \A j \in 1..(i - 1) : ~endswith(last.listing[j], Suffix)
Picked == last.listing[PickedIdx]
PickedBody == results.files[Picked]

\* valid JSON with metrics holding the seven sub-fields and results a list
WellFormed(body) ==
    /\ body.kind = "json"
    /\ body.value.type = "dict"
    /\ {"metrics", "results"} \subseteq DOMAIN body.value.fields
    /\ body.value.fields["metrics"].type = "dict"
    /\ MetricKeySet \subseteq DOMAIN body.value.fields["metrics"].fields
    /\ body.value.fields["results"].type = "list"

\* the malformations of a result file: invalid JSON, metrics absent, one
\* of its seven sub-fields absent, results absent
Malformed(body) ==
    \/ body.kind = "text"
    \/ /\ body.kind = "json"
       /\ body.value.type = "dict"
       /\ \/ "metrics" \notin DOMAIN body.value.fields
          \/ "results" \notin DOMAIN body.value.fields
          \/ /\ body.value.fields["metrics"].type = "dict"
             /\ ~(MetricKeySet \subseteq DOMAIN body.value.fields["metrics"].fields)

LogUsable == ~logf.exists \/ logf.readable

FileMetrics == PickedBody.value.fields["metrics"].fields
FileResults == PickedBody.value.fields["results"].elems

MetricsCopied ==
    /\ Returned
    /\ Rec.is_resolved
    /\ Rec.task_id = last.task_id
    /\ DOMAIN Rec.metrics = MetricKeySet
    /\ \A k \in MetricKeySet : Rec.metrics[k] = FileMetrics[k]

(***************************************************************************)
(* C1                                                                      *)
(***************************************************************************)
\* C1: get_result never raises to its caller: whatever the state of the
\* results and logs directories, the call returns a record, and a record
\* that is not resolved carries other.error.
C1_NeverRaises ==
    IsCall =>
        /\ last.out.kind = "return"
        /\ Rec.is_resolved \/ "error" \in DOMAIN Rec.other

(***************************************************************************)
(* C2                                                                      *)
(***************************************************************************)
\* C2 as claimed: a well-formed selected result file gives a resolved
\* record echoing task_id, with exactly the seven metrics, each equal to
\* the file's value.
C2_Original == (HasPick /\ WellFormed(PickedBody)) => MetricsCopied

\* C2 as amended: the same, provided simpleqa.log is absent or readable.
C2_Amended == (HasPick /\ WellFormed(PickedBody) /\ LogUsable) => MetricsCopied

C2_Witness ==
    /\ HasPick
    /\ PickedBody = Doc(JDict(MetricsB), JList(Examples(3)))
    /\ logf.exists
    /\ MetricsCopied

(***************************************************************************)
(* C3                                                                      *)
(***************************************************************************)
\* C3: when the listed results directory has no entry ending in
\* _result.json, get_result returns exactly the no-results record for its
\* task_id and touches nothing but the results directory.
C3_NoResults ==
    (IsCall /\ results.state = "ok" /\ Matching = {}) =>
        /\ last.out =
             [kind |-> "return",
              value |-> [task_id |-> last.task_id, is_resolved |-> FALSE,
                         log |-> [message |-> ""], metrics |-> [accuracy |-> 0],
                         other |-> [error |-> "No results found"]]]
        /\ \A i \in DOMAIN last.accesses : last.accesses[i].path = results_dir

C3_Witness ==
    /\ IsCall
    /\ results.state = "ok"
    /\ DOMAIN results.files = {"a_result.json.bak"}
    /\ logf.exists
    /\ Returned
    /\ Rec.other = [error |-> "No results found"]

(***************************************************************************)
(* C4                                                                      *)
(***************************************************************************)
\* C4: a malformed selected result file gives an unresolved record with
\* metrics {accuracy: 0.0}, log {message: ""} and other holding only error,
\* whether or not simpleqa.log exists.
C4_Malformed ==
    (HasPick /\ Malformed(PickedBody)) =>
        /\ Returned
        /\ ~Rec.is_resolved
        /\ Rec.metrics = [accuracy |-> 0]
        /\ Rec.log = [message |-> ""]
        /\ DOMAIN Rec.other = {"error"}

C4_Witness ==
    /\ HasPick
    /\ PickedBody = Doc(JDict(Without(MetricsA, "f_score")), JList(Examples(3)))
    /\ logf.text = "hello"
    /\ Returned
    /\ ~Rec.is_resolved

(***************************************************************************)
(* C5                                                                      *)
(***************************************************************************)
\* C5 as claimed: in the malformed-output case other.error equals the
\* caught exception's message, nothing added.
C5_Original ==
    (Returned /\ last.caught.raised) => Rec.other.error = last.caught.msg

\* C5 as amended: other.error is "Error parsing results: " followed by the
\* caught exception's message verbatim; so an absent metrics key reads
\* "Error parsing results: 'metrics'" and an empty file reads the decoder's
\* message after the same prefix.
C5_Amended ==
    /\ (Returned /\ last.caught.raised) =>
          Rec.other.error = "Error parsing results: " \o last.caught.msg
    /\ (HasPick /\ PickedBody = Json(JDict([results |-> JList(Examples(3))]))
          /\ LogUsable) =>
          Rec.other.error = "Error parsing results: 'metrics'"
    /\ (HasPick /\ PickedBody = Text("")) =>
          Rec.other.error =
             "Error parsing results: Expecting value: line 1 column 1 (char 0)"

C5_Witness ==
    /\ Returned
    /\ last.caught.raised
    /\ last.caught.type = "KeyError"
    /\ Rec.other.error = "Error parsing results: 'total'"

(***************************************************************************)
(* C6                                                                      *)
(***************************************************************************)
\* C6: on success other.detailed_results is the prefix of the file's
\* results list of length min(10, n): same elements, same order.
C6_Prefix ==
    (Returned /\ Rec.is_resolved) =>
        LET d == Rec.other.detailed_results
        IN  /\ Len(d) = (IF Len(FileResults) < 10 THEN Len(FileResults) ELSE 10)
            /\ \A i \in 1..Len(d) : d[i] = FileResults[i]

C6_Witness ==
    /\ Returned
    /\ Rec.is_resolved
    /\ Len(FileResults) > 10
    /\ Len(Rec.other.detailed_results) = 10

(***************************************************************************)
(* C7                                                                      *)
(***************************************************************************)
LogBestEffort ==
    /\ Returned
    /\ Rec.is_resolved
    /\ Rec.log = [content |-> IF logf.exists THEN logf.text ELSE ""]
    /\ LET base == get_result(last.task_id, results, last.listing, NoLog).out.value
       IN  /\ Rec.is_resolved = base.is_resolved
           /\ Rec.metrics = base.metrics
           /\ Rec.other = base.other

\* C7 as claimed: with a well-formed result file the record is resolved
\* whether or not simpleqa.log exists, log.content is the file's text or
\* "", and is_resolved, metrics and other are those of the call without
\* the log.
C7_Original == (HasPick /\ WellFormed(PickedBody)) => LogBestEffort

\* C7 as amended: the same, for a simpleqa.log that is absent or can be
\* read.
C7_Amended == (HasPick /\ WellFormed(PickedBody) /\ LogUsable) => LogBestEffort

C7_Witness ==
    /\ HasPick
    /\ WellFormed(PickedBody)
    /\ logf.exists
    /\ Returned
    /\ Rec.is_resolved
    /\ Rec.log = [content |-> "hello"]

(***************************************************************************)
(* C8                                                                      *)
(***************************************************************************)
\* C8: a get_result call leaves both directories as it found them, and a
\* call that repeats the previous one (same task_id, same listing order,
\* nothing written in between) gets the same outcome.
C8_ReadOnlyIdempotent ==
    [][last'.op = "get_result" =>
          /\ results' = results
          /\ logf' = logf
          /\ last'.repeat => last'.out = last.out]_vars

C8_Witness ==
    /\ HasPick
    /\ last.repeat
    /\ Cardinality(Matching) = 2
    /\ Returned
    /\ Rec.is_resolved

(***************************************************************************)
(* C9                                                                      *)
(***************************************************************************)
\* C9: get_args returns, for every task_id, required = {OPENAI_API_KEY}
\* and the seven optional defaults, and no key is both required and
\* optional.
C9_Config ==
    last.op = "get_args" =>
        /\ last.out.required_args = <<"OPENAI_API_KEY">>
        /\ last.out.optional_args =
             [MODEL_NAME |-> "gpt-4o-mini", TEMPERATURE |-> "0.5",
              MAX_TOKENS |-> "2048", LIMIT |-> "0", BATCH_SIZE |-> "10",
              GRADER_MODEL |-> "gpt-4o", GRADER_TEMPERATURE |-> "0.5"]
        /\ \A i \in DOMAIN last.out.required_args :
              last.out.required_args[i] \notin DOMAIN last.out.optional_args

C9_Witness == last.op = "get_args" /\ last.task_id = ""

(***************************************************************************)
(* C10                                                                     *)
(***************************************************************************)
\* C10: with several matching entries get_result opens exactly one, the
\* first of the listing; its outcome is that of a directory holding that
\* entry alone; and a malformed first entry gives an unresolved record
\* even when another matching entry is well-formed.
C10_FirstOnly ==
    (HasPick /\ Cardinality(Matching) > 1) =>
        /\ \A i \in DOMAIN last.accesses :
              (last.accesses[i].op = "open" /\ last.accesses[i].path # LogPath)
                  => last.accesses[i].path = results_dir \o "/" \o Picked
        /\ Cardinality({i \in DOMAIN last.accesses :
               last.accesses[i].op = "open" /\ last.accesses[i].path # LogPath}) = 1
        /\ last.out =
             get_result(last.task_id,
                        [state |-> "ok",
                         files |-> [n \in {Picked} |-> PickedBody]],
                        <<Picked>>, logf).out
        /\ ~WellFormed(PickedBody) => (Returned /\ ~Rec.is_resolved)

C10_Witness ==
    /\ HasPick
    /\ Cardinality(Matching) > 1
    /\ ~WellFormed(PickedBody)
    /\ \E n \in Matching : WellFormed(results.files[n])
    /\ Returned
    /\ ~Rec.is_resolved

=============================================================================
